---- MODULE Spec2Model ----
(***************************************************************************)
(* CLARA backend: the per-connection session protocol of websocket_clara   *)
(* (backend/main.py), the reply pipeline process_user_text_and_reply, and  *)
(* the capture pipeline record_audio (backend/core/audio_pipeline.py).     *)
(*                                                                         *)
(* Strings that the code manipulates (strip, slice, rsplit, len) are kept  *)
(* run-length encoded: a sequence of runs <<class, n>> where class is " "  *)
(* (whitespace), "w" (any other character) or "." (a full stop).  Fixed    *)
(* literals the code only copies are kept as TLA+ strings.                 *)
(***************************************************************************)
EXTENDS Integers, Sequences, FiniteSets, TLC

\* ------------------------------------------------------------------ bounds
\* Unread frames a client may have queued on one connection.
MaxInbox == 1
\* Utterance frames (user_message with text, toggle_mic, mic_start) a client
\* sends on one connection.
MaxTurns == 1
\* Entries of the device list.
MaxDevices == 3
\* Chunks handed to the WAV builder.
MaxChunks == 3
\* Runs of blocks the device delivers before its stream settles into one kind.
MaxRuns == 2
\* Blocks' worth of samples a capture may pull; every stream of the model
\* that ends, ends below it.
MaxCaptureBlocks == 510

\* --------------------------------------------------------- program constants
max_fallback_chars == 600
AUDIO_SAMPLE_RATE == 16000
AUDIO_VAD_FRAME_MS == 20
AUDIO_SILENCE_STOP_MS == 1500
AUDIO_SPEECH_TIMEOUT_MS == 10000
\* AUDIO_FIXED_RECORD_SECONDS = 4.0, in tenths of a second
FixedRecordTenths == 40
\* AUDIO_SILENT_RMS_THRESHOLD = 0.001: rms < 0.001 is mean(sample^2) < 32.768^2,
\* and 32.768^2 = SilentSqWhole + SilentSqNum / SilentSqDen exactly.
SilentSqWhole == 1073
SilentSqNum == 11591
SilentSqDen == 15625

\* ---------------------------------------------------- run-length strings
RECURSIVE RLen(_)
RLen(s) ==
    IF s = <<>> THEN 0 ELSE Head(s)[2] + RLen(Tail(s))

RECURSIVE LStrip(_)
LStrip(s) ==
    IF s # <<>> /\ Head(s)[1] = " " THEN LStrip(Tail(s)) ELSE s

RECURSIVE RStrip(_)
RStrip(s) ==
    IF s # <<>> /\ s[Len(s)][1] = " " THEN RStrip(SubSeq(s, 1, Len(s) - 1)) ELSE s

\* str.strip()
Strip(s) ==
    RStrip(LStrip(s))

\* s[:k]
RECURSIVE Take(_, _)
Take(s, k) ==
    IF k <= 0 \/ s = <<>> THEN <<>>
    ELSE IF Head(s)[2] <= k THEN <<Head(s)>> \o Take(Tail(s), k - Head(s)[2])
    ELSE << <<Head(s)[1], k>> >>

\* a + b
Concat(a, b) ==
    IF a = <<>> THEN b
    ELSE IF b = <<>> THEN a
    ELSE IF a[Len(a)][1] = Head(b)[1]
         THEN SubSeq(a, 1, Len(a) - 1)
              \o << <<Head(b)[1], a[Len(a)][2] + Head(b)[2]>> >> \o Tail(b)
    ELSE a \o b

\* s.rsplit(maxsplit=1): the list of pieces, split at the last whitespace run
\* after dropping trailing whitespace; a remainder of only whitespace is dropped.
RSplit1(s) ==
    LET t == RStrip(s)
        ws == {i \in 1..Len(t) : t[i][1] = " "}
    IN  IF t = <<>> THEN <<>>
        ELSE IF ws = {} THEN <<t>>
        ELSE LET i == CHOOSE k \in ws : \A m \in ws : m <= k
                 head == SubSeq(t, 1, i - 1)
                 word == SubSeq(t, i + 1, Len(t))
             IN  IF head = <<>> THEN <<word>> ELSE <<head, word>>

\* s.endswith("...")
EndsWithEllipsis(s) ==
    s # <<>> /\ s[Len(s)][1] = "." /\ s[Len(s)][2] >= 3

Ellipsis == << <<".", 3>> >>

\* A text value: the literal prefix followed by the run-length part.
Txt(lit, rle) == [lit |-> lit, rle |-> rle]
Lit(lit) == Txt(lit, <<>>)
TextEmpty(t) == t.lit = "" /\ t.rle = <<>>

\* ------------------------------------------------------ values and JSON
NoneVal == [none |-> TRUE]
\* b"" and ""
EmptyVal == [empty |-> TRUE]
\* Python truthiness of None / empty / a non-empty bytes or str object
Falsy(v) == "none" \in DOMAIN v \/ "empty" \in DOMAIN v

\* A JSON member value as msg.get(key) returns it: a missing key (None), an
\* identifier-like string, a free text, a number, an empty list.
Absent == [t |-> "absent"]
JStr(s) == [t |-> "str", s |-> s]
JText(r) == [t |-> "text", r |-> r]
JNum(n) == [t |-> "num", n |-> n]
JList == [t |-> "list"]

\* bool(v) of a JSON member value
Truthy(j) ==
    CASE j.t = "str" -> j.s # ""
      [] j.t = "text" -> j.r # <<>>
      [] j.t = "num" -> j.n # 0
      [] OTHER -> FALSE

\* a or b
PyOr(a, b) == IF Truthy(a) THEN a ELSE b

\* hash(v) raises TypeError for a list
Hashable(j) == j.t # "list"

\* A decoded JSON object with the keys the handler reads.
Msg(a, e, l, t) == [action |-> a, event |-> e, language |-> l, text |-> t]
EmptyMsg == Msg(Absent, Absent, Absent, Absent)
Act(a) == Msg(JStr(a), Absent, Absent, Absent)

\* The text of an inbound frame: "", text that is no JSON, a JSON value that is
\* no object, a JSON object.
EmptyData == [t |-> "empty"]
GarbageData == [t |-> "garbage"]
ArrayData == [t |-> "array"]
ObjData(m) == [t |-> "object", msg |-> m]

BinaryFrame == [kind |-> "binary"]
TextFrame(d) == [kind |-> "text", data |-> d]
NoFrame == [kind |-> "none"]

Sp == << <<" ", 1>> >>
PaddedWord == << <<" ", 1>>, <<"w", 1>>, <<" ", 1>> >>

LanguageInputs ==
    {JStr("English"), JStr("Hindi"), JStr("Klingon"), Absent, JNum(5), JList}
TextInputs ==
    {Absent, JText(<<>>), JText(Sp), JText(PaddedWord), JNum(5), JList}
SimpleActions ==
    {"wake", "conversation_started", "toggle_mic", "mic_start", "mic_stop",
     "mic_cancel", "menu_select"}

\* The frames a client sends.
AllFrames ==
    {BinaryFrame, TextFrame(EmptyData), TextFrame(GarbageData), TextFrame(ArrayData),
     TextFrame(ObjData(EmptyMsg)),
     TextFrame(ObjData(Msg(Absent, JStr("wake"), Absent, Absent)))}
    \cup {TextFrame(ObjData(Act(a))) : a \in SimpleActions}
    \cup {TextFrame(ObjData(Msg(JStr("language_selected"), Absent, l, Absent))) :
            l \in LanguageInputs}
    \cup {TextFrame(ObjData(Msg(JStr("user_message"), Absent, Absent, t))) :
            t \in TextInputs}

\* The frames of the two-connection specification.
ConcFrames ==
    {TextFrame(ObjData(Act(a))) : a \in {"toggle_mic", "mic_stop"}}

\* Faulty variant of ParseFrame: a JSON value that is no object is read as {}.
ParseFrameLenient(d) ==
    CASE d.t \in {"empty", "array"} -> [ok |-> TRUE, msg |-> EmptyMsg]
      [] d.t = "object" -> [ok |-> TRUE, msg |-> d.msg]
      [] OTHER -> [ok |-> FALSE, msg |-> EmptyMsg]

\* data = receive_text(); json.loads(data) if data else {}; msg.get(...)
\* ok is FALSE when the statement raises (JSONDecodeError, AttributeError).
ParseFrame(d) ==
    CASE d.t = "empty" -> [ok |-> TRUE, msg |-> EmptyMsg]
      [] d.t = "object" -> [ok |-> TRUE, msg |-> d.msg]
      [] OTHER -> [ok |-> FALSE, msg |-> EmptyMsg]

\* action = msg.get("action") or msg.get("event")
ActionOf(msg) == PyOr(msg.action, msg.event)
IsAction(j, name) == j.t = "str" /\ j.s = name

\* --------------------------------------------------------- configuration
LANGUAGE_NAME_TO_CODE_KEY ==
    [l \in {"English", "Kannada", "Hindi", "Tamil", "Telugu", "Malayalam"} |->
        CASE l = "English" -> "en" [] l = "Kannada" -> "kn" [] l = "Hindi" -> "hi"
          [] l = "Tamil" -> "ta" [] l = "Telugu" -> "te" [] l = "Malayalam" -> "ml"]
TARGET_LANGUAGE_CODES ==
    [k \in {"en", "hi", "kn", "ta", "te", "ml"} |->
        CASE k = "en" -> "en-IN" [] k = "hi" -> "hi-IN" [] k = "kn" -> "kn-IN"
          [] k = "ta" -> "ta-IN" [] k = "te" -> "te-IN" [] k = "ml" -> "ml-IN"]
VALID_LANGUAGES == DOMAIN LANGUAGE_NAME_TO_CODE_KEY
\* GREETINGS[language]: the greeting text of each language, named by language.
GREETINGS ==
    [l \in VALID_LANGUAGES |->
        IF l = "English"
        THEN Lit("Good evening. I am CLARA, your campus assistant. How may I help you today?")
        ELSE CASE l = "Kannada" -> Lit("greeting in Kannada")
               [] l = "Hindi" -> Lit("greeting in Hindi")
               [] l = "Tamil" -> Lit("greeting in Tamil")
               [] l = "Telugu" -> Lit("greeting in Telugu")
               [] l = "Malayalam" -> Lit("greeting in Malayalam")]

\* The process configuration read from the environment at import.
Configs ==
    [groq : BOOLEAN, sarvam : BOOLEAN, mode : {"fixed", "vad"}]

\* -------------------------------------------------------- capture pipeline
\* Mono int16 PCM is kept run-length encoded too: runs <<amplitude, samples>>.
Max(a, b) == IF a >= b THEN a ELSE b
Min(a, b) == IF a <= b THEN a ELSE b

\* An int or a str that may be None: NoneVal, [i |-> n], [s |-> characters].
IntVal(n) == [i |-> n]
StrVal(chars) == [s |-> chars]

\* str.lower() over the letters the device names are written in
LowerChar(ch) ==
    CASE ch = "U" -> "u"
      [] ch = "S" -> "s"
      [] ch = "B" -> "b"
      [] ch = "M" -> "m"
      [] OTHER -> ch
Lower(chars) == [k \in 1..Len(chars) |-> LowerChar(chars[k])]

\* sub in chars
Contains(sub, chars) ==
    \E k \in 0..(Len(chars) - Len(sub)) : SubSeq(chars, k + 1, k + Len(sub)) = sub

\* One entry of sd.query_devices(): dev.get("name"), dev.get("max_input_channels", 0)
Device(name, max_input_channels) ==
    [name |-> name, max_input_channels |-> max_input_channels]

Ret(v) == [ret |-> v]
Raises(e) == [raises |-> e]

\* devices[i] for a Python index: a negative index counts from the end, an
\* index outside -len .. len-1 raises IndexError.
PyIndexOk(devices, i) == -Len(devices) <= i /\ i < Len(devices)

\* _resolve_input_device with devices = sd.query_devices(), default_device =
\* sd.default.device[0], and the two configured values.
ResolveInputDevice(devices, default_device, index, name) ==
    LET default_in == IF Falsy(default_device) THEN 0 ELSE default_device.i
        HasInput(i) == devices[i + 1].max_input_channels > 0
        NameOf(i) == IF Falsy(devices[i + 1].name) THEN <<>> ELSE devices[i + 1].name.s
        by_index ==
            /\ ~Falsy(index)
            /\ 0 <= index.i /\ index.i < Len(devices)
            /\ HasInput(index.i)
        named ==
            IF Falsy(name) THEN {}
            ELSE {i \in 0..(Len(devices) - 1) :
                     HasInput(i) /\ Contains(Lower(name.s), Lower(NameOf(i)))}
    IN  IF by_index THEN Ret(index.i)
        ELSE IF named # {} THEN Ret(CHOOSE i \in named : \A j \in named : i <= j)
        ELSE IF default_in < Len(devices) /\ ~PyIndexOk(devices, default_in)
        THEN Raises("IndexError")
        ELSE Ret(default_in)

\* _VAD_FRAME_MS, SAMPLES_PER_FRAME, BYTES_PER_FRAME
VadFrameMs ==
    IF AUDIO_VAD_FRAME_MS <= 10 THEN 10 ELSE IF AUDIO_VAD_FRAME_MS <= 20 THEN 20 ELSE 30
SAMPLES_PER_FRAME == (AUDIO_SAMPLE_RATE * VadFrameMs) \div 1000
BYTES_PER_FRAME == SAMPLES_PER_FRAME * 2

\* len(mono_bytes)
ByteLen(mono) == 2 * RLen(mono)

RECURSIVE SumSq(_)
SumSq(mono) ==
    IF mono = <<>> THEN 0
    ELSE Head(mono)[1] * Head(mono)[1] * Head(mono)[2] + SumSq(Tail(mono))

\* _compute_rms(mono) < AUDIO_SILENT_RMS_THRESHOLD.  A buffer under 2 bytes has
\* rms 0.0.  Otherwise sqrt(S / n) / 32768 < 0.001 with S the sum of squares of
\* the n samples, i.e. S - SilentSqWhole * n < n * SilentSqNum / SilentSqDen.
RmsBelowThreshold(mono) ==
    LET n == RLen(mono)
        d == SumSq(mono) - SilentSqWhole * n
    IN  IF ByteLen(mono) < 2 THEN TRUE
        ELSE IF d <= 0 THEN TRUE
        ELSE IF d >= n THEN FALSE
        ELSE d * SilentSqDen < n * SilentSqNum

\* struct.pack("<I", 36 + n_frames * 2) ... buf.write(mono)
WavContainer(mono) ==
    LET n_frames == ByteLen(mono) \div 2
    IN  [riffSize |-> 36 + n_frames * 2, fmtSize |-> 16, format |-> 1, channels |-> 1,
         rate |-> AUDIO_SAMPLE_RATE, byteRate |-> AUDIO_SAMPLE_RATE * 2,
         blockAlign |-> 2, bits |-> 16, dataSize |-> n_frames * 2, data |-> mono]

\* The bytes in front of the payload: "RIFF", <I, "WAVEfmt ", <IHHIIHH,
\* "data", <I.
WavHeaderLen == 4 + 4 + 8 + (4 + 2 + 2 + 4 + 4 + 2 + 2) + 4 + 4

\* len() of what a builder returns
WavLen(wav) ==
    IF Falsy(wav) THEN 0 ELSE WavHeaderLen + ByteLen(wav.data)

\* Faulty variant of BuildWavFromMonoBytes: an empty buffer gets a header too.
BuildWavFromMonoBytesHeaderOnly(mono) ==
    WavContainer(mono)

\* _build_wav_from_mono_bytes
BuildWavFromMonoBytes(mono) ==
    IF ByteLen(mono) = 0 THEN EmptyVal ELSE WavContainer(mono)

\* b"".join(chunks)
RECURSIVE JoinChunks(_)
JoinChunks(chunks) ==
    IF chunks = <<>> THEN <<>> ELSE Concat(Head(chunks), JoinChunks(Tail(chunks)))

\* _build_wav_from_chunks
BuildWavFromChunks(chunks) ==
    LET mono == JoinChunks(chunks)
    IN  IF ByteLen(mono) = 0 THEN EmptyVal ELSE WavContainer(mono)

\* duration_s and the mono sample count of _record_fixed_duration
FixedDurationTenths == Max(5, Min(300, FixedRecordTenths))
FixedSamples == (AUDIO_SAMPLE_RATE * FixedDurationTenths) \div 10

\* record_audio 119-120: the channel count the device is opened with
Channels(max_input_channels, audio_channels) ==
    Max(1, Min(max_input_channels, Max(1, audio_channels)))

\* _record_fixed_duration 75-76 for a configured duration in tenths of a
\* second: duration_s, and samples_total, the frame count handed to sd.rec
DurationTenths(seconds_tenths) == Max(5, Min(300, seconds_tenths))
SamplesTotal(seconds_tenths, channels) ==
    ((AUDIO_SAMPLE_RATE * DurationTenths(seconds_tenths)) \div 10) * channels

\* 77-83: sd.rec(frames, channels=channels) returns frames rows of channels
\* samples; the mean over the channels (or squeeze) leaves one sample per row.
MonoOfRec(frames, amplitude) ==
    IF frames = 0 THEN <<>> ELSE << <<amplitude, frames>> >>

\* _record_fixed_duration from the rms on: a silent buffer gives None.
RecordFixedDuration(mono) ==
    IF RmsBelowThreshold(mono) THEN NoneVal ELSE BuildWavFromMonoBytes(mono)

\* record_audio at the VAD stop point, accumulated being the chunks kept.
VadStop(accumulated) ==
    LET wav == BuildWavFromChunks(accumulated)
        mono == JoinChunks(accumulated)
    IN  IF ByteLen(mono) >= BYTES_PER_FRAME /\ RmsBelowThreshold(mono)
        THEN NoneVal ELSE wav

\* record_audio 128-129
silence_frames_to_stop == (AUDIO_SILENCE_STOP_MS + VadFrameMs - 1) \div VadFrameMs
speech_timeout_frames ==
    Max(1, (AUDIO_SPEECH_TIMEOUT_MS + VadFrameMs - 1) \div VadFrameMs)

\* The locals of the VAD loop (131-134); accumulated is kept joined.
VadLocals ==
    [accumulated |-> <<>>, consecutive_silence |-> 0, speech_started |-> FALSE,
     frames_without_speech |-> 0]

\* Faulty variant of VadFrame: a speech sub-frame leaves the silence count.
VadFrameKeepsCount(st, is_speech) ==
    IF is_speech
    THEN [st EXCEPT !.speech_started = TRUE]
    ELSE [st EXCEPT !.consecutive_silence = @ + 1]

\* 152-158: one sub-frame through vad.is_speech
VadFrame(st, is_speech) ==
    IF is_speech
    THEN [st EXCEPT !.speech_started = TRUE, !.consecutive_silence = 0]
    ELSE [st EXCEPT !.consecutive_silence = @ + 1]

\* 150-167: the sub-frames of one block, speech holding vad.is_speech of each;
\* at the stop point raw_mono[:off] is kept and the loop is left.
RECURSIVE VadFrames(_, _, _, _)
VadFrames(st, raw_mono, speech, off) ==
    IF speech = <<>> THEN [st |-> st, stopped |-> FALSE]
    ELSE LET s1 == VadFrame(st, Head(speech))
         IN  IF ~Head(speech) /\ s1.speech_started
                /\ s1.consecutive_silence >= silence_frames_to_stop
             THEN [st |-> [s1 EXCEPT !.accumulated = Concat(@, Take(raw_mono, off \div 2))],
                   stopped |-> TRUE]
             ELSE VadFrames(s1, raw_mono, Tail(speech), off + BYTES_PER_FRAME)

\* Faulty variant of AfterBlock: the wait for speech is counted after speech
\* has started too.
AfterBlockKeepsWaiting(st, raw_mono) ==
    LET s1 == [st EXCEPT !.accumulated = Concat(@, raw_mono),
                         !.frames_without_speech = @ + 1]
    IN  [st |-> s1, timed_out |-> s1.frames_without_speech >= speech_timeout_frames]

\* 168-175: the block is kept and the wait for speech counted.
AfterBlock(st, raw_mono) ==
    LET s1 == [st EXCEPT !.accumulated = Concat(@, raw_mono)]
    IN  IF ~s1.speech_started
        THEN LET s2 == [s1 EXCEPT !.frames_without_speech = @ + 1]
             IN  [st |-> s2,
                  timed_out |-> s2.frames_without_speech >= speech_timeout_frames]
        ELSE [st |-> [s1 EXCEPT !.frames_without_speech = 0], timed_out |-> FALSE]

\* 144-175: one pass of the while loop over a block read from the stream.
\* end is "" while the loop goes on.
VadBlock(st, raw_mono, speech) ==
    IF ByteLen(raw_mono) < BYTES_PER_FRAME THEN [st |-> st, end |-> ""]
    ELSE LET f == VadFrames(st, raw_mono, speech, 0)
         IN  IF f.stopped THEN [st |-> f.st, end |-> "stop"]
             ELSE LET a == AfterBlock(f.st, raw_mono)
                  IN  [st |-> a.st, end |-> IF a.timed_out THEN "timeout" ELSE ""]

\* What the device does during one capture: it fails (any exception inside
\* record_audio), or delivers sound; in VAD mode the segmenter then either
\* times out waiting for speech or reaches its stop point with chunks kept.
Amplitudes == {0, 32, 33}
FixedSounds == {<< <<a, FixedSamples>> >> : a \in Amplitudes}
VadChunkLists ==
    {<< << <<a, SAMPLES_PER_FRAME>> >>, << <<b, SAMPLES_PER_FRAME>> >> >> :
        a \in Amplitudes, b \in {0, 33}}
CaptureEnvs ==
    [k : {"fault"}]
    \cup [k : {"fixed"}, mono : FixedSounds]
    \cup [k : {"vad_timeout"}]
    \cup [k : {"vad_stop"}, chunks : VadChunkLists]

\* The environments a capture can meet in a record mode.
EnvsOfMode(mode) ==
    {e \in CaptureEnvs :
        e.k = "fault" \/ (mode = "fixed" /\ e.k = "fixed")
        \/ (mode = "vad" /\ e.k \in {"vad_timeout", "vad_stop"})}

\* Why a capture ended, for the log line record_audio writes.
CaptureCause(e) ==
    CASE e.k = "fault" -> "error"
      [] e.k = "vad_timeout" -> "timeout"
      [] e.k = "fixed" -> IF RmsBelowThreshold(e.mono) THEN "silent" ELSE "ok"
      [] e.k = "vad_stop" ->
            IF ByteLen(JoinChunks(e.chunks)) >= BYTES_PER_FRAME
               /\ RmsBelowThreshold(JoinChunks(e.chunks))
            THEN "silent" ELSE "ok"

\* record_audio(): WAV bytes, or None on timeout / error / silent.
RecordAudio(e) ==
    CASE e.k = "fault" -> NoneVal
      [] e.k = "fixed" -> RecordFixedDuration(e.mono)
      [] e.k = "vad_timeout" -> NoneVal
      [] e.k = "vad_stop" -> VadStop(e.chunks)

\* ---------------------------------------------------------- collaborators
\* tts_to_base64(text, language_code): the base64 audio, or None without a key,
\* for an empty text, or when the call raises; "" when the service wrote no bytes.
TtsOutcomes == {"audio", "raise", "empty"}
Audio(text, code) == [speech |-> text, lang |-> code]
TtsToBase64(cfgv, text, code, outcome) ==
    IF ~cfgv.sarvam \/ TextEmpty(text) THEN NoneVal
    ELSE CASE outcome = "audio" -> Audio(text, code)
           [] outcome = "empty" -> EmptyVal
           [] OTHER -> NoneVal

\* wav_to_transcript(wav_bytes): the stripped transcript, or None without a
\* key, for no WAV, for a missing or blank text, or when the call raises.
SttOutcomes ==
    [k : {"raise", "none"}] \cup [k : {"text"}, r : {<<>>, Sp, PaddedWord}]
WavToTranscript(cfgv, wav, o) ==
    IF ~cfgv.sarvam \/ Falsy(wav) THEN NoneVal
    ELSE IF o.k = "text" /\ Strip(o.r) # <<>> THEN Txt("", Strip(o.r))
    ELSE NoneVal

\* get_relevant_context(text): the joined chunks, "" when nothing was found.
LongWord == << <<"w", max_fallback_chars + 1>> >>
Contexts ==
    {<<>>, Sp, << <<"w", 10>> >>, << <<"w", max_fallback_chars>> >>, LongWord,
     << <<" ", 3>>, <<"w", 5>>, <<" ", 2>> >>,
     << <<"w", 590>>, <<" ", 1>>, <<"w", 20>> >>,
     << <<"w", 596>>, <<" ", 5>>, <<"w", 3>> >>,
     << <<"w", 300>>, <<" ", 2>>, <<"w", 200>>, <<".", 3>>, <<" ", 1>>, <<"w", 400>> >>}

\* client.chat.completions.create(...): raises, or returns a message content
\* (None, blank or a text).
GenOutcomes ==
    [k : {"raise", "null"}] \cup [k : {"content"}, r : {<<>>, Sp, PaddedWord}]

NotConfiguredText == Lit("I'm sorry, the assistant is not configured.")
FallbackIntro == "Based on our college information: "
ConnectivityText ==
    Lit("I'm sorry, I couldn't reach the assistant right now. Please check your Groq API key in .env and try again.")

\* main.py 94-111: reply_text after the try block ("" stands for None too).
GeneratedText(cfgv, gen) ==
    IF cfgv.groq
    THEN IF gen.k = "content" THEN Txt("", Strip(gen.r)) ELSE Txt("", <<>>)
    ELSE NotConfiguredText

\* Faulty variant of TrimmedContext: the slice is taken at the cap itself.
TrimmedContextCutAtCap(context) ==
    LET trimmed == Strip(context)
    IN  IF RLen(trimmed) > max_fallback_chars
        THEN Concat(Head(RSplit1(Take(trimmed, max_fallback_chars))), Ellipsis)
        ELSE trimmed

\* main.py 117-119: the extract of the context.
TrimmedContext(context) ==
    LET trimmed == Strip(context)
    IN  IF RLen(trimmed) > max_fallback_chars
        THEN Concat(Head(RSplit1(Take(trimmed, max_fallback_chars - 3))), Ellipsis)
        ELSE trimmed

\* main.py 112-125: the fallback ladder.
ReplyText(cfgv, context, gen) ==
    LET reply_text == GeneratedText(cfgv, gen)
    IN  IF ~TextEmpty(reply_text) THEN reply_text
        ELSE IF Strip(context) # <<>>
             THEN Txt(FallbackIntro, TrimmedContext(context))
        ELSE ConnectivityText

\* ------------------------------------------------------------- envelopes
Env(state, payload) == [state |-> state, payload |-> payload]
Null == [null |-> TRUE]
Processing == Env(5, [isProcessing |-> TRUE])
IdleEnv == Env(0, Null)
MicCaptureFailed ==
    Env(5, [error |-> "No speech heard.", errorCode |-> "MIC_CAPTURE_FAILED",
            isProcessing |-> FALSE])
NoSpeechDetected ==
    Env(5, [error |-> "No speech detected.", errorCode |-> "NO_SPEECH_DETECTED",
            isProcessing |-> FALSE])
MissingText == Env(5, [error |-> "Missing text", isProcessing |-> FALSE])
FatalEnv(description) == Env(-1, [error |-> description])

\* ---------------------------------------------------------------- session
NoneStr == "None"
InitSession ==
    [language |-> NoneStr, language_code |-> NoneStr, messages |-> <<>>,
     cached_greeting_audio |-> NoneVal, cached_greeting_message |-> NoneVal]

Message(id, role, text) == [id |-> id, role |-> role, text |-> text]
\* Faulty variant of GreetingMessage: the greeting carries another role.
GreetingMessageAsSystem(text) == Message(<<"greeting", 0>>, "system", text)
GreetingMessage(text) == Message(<<"greeting", 0>>, "clara", text)

\* GREETINGS.get(lang, GREETINGS["English"])
GreetingOf(lang) ==
    IF lang \in DOMAIN GREETINGS THEN GREETINGS[lang] ELSE GREETINGS["English"]

\* What one run of the dispatch does up to its first suspension: the session
\* after it, the envelopes it sends in order, whether it raised, where it
\* continues, and the text handed to the reply pipeline.
Result(sess, envs, raised, next, text) ==
    [sess |-> sess, envs |-> envs, raised |-> raised, next |-> next, text |-> text]
NoText == Txt("", <<>>)

\* Faulty variant of HandleLanguageSelected: the code is stored together with
\* the cache, only when the synthesis gave audio.
HandleLanguageSelectedCodeWithCache(cfgv, sess, msg, tts) ==
    LET language == msg.language
    IN  IF ~Hashable(language) THEN Result(sess, <<>>, TRUE, "recv", NoText)
        ELSE IF language.t = "str" /\ language.s \in VALID_LANGUAGES
        THEN LET code == TARGET_LANGUAGE_CODES[LANGUAGE_NAME_TO_CODE_KEY[language.s]]
                 greeting_text == GreetingOf(language.s)
                 audio_b64 == TtsToBase64(cfgv, greeting_text, code, tts)
                 s1 == [sess EXCEPT !.language = language.s]
                 s2 == IF ~Falsy(audio_b64)
                       THEN [s1 EXCEPT !.language_code = code,
                                       !.cached_greeting_audio = audio_b64,
                                       !.cached_greeting_message =
                                           GreetingMessage(greeting_text)]
                       ELSE s1
             IN  Result(s2, <<Env(5, Null)>>, FALSE, "recv", NoText)
        ELSE Result(sess, <<Env(5, Null)>>, FALSE, "recv", NoText)

\* main.py 206-220: language_selected
HandleLanguageSelected(cfgv, sess, msg, tts) ==
    LET language == msg.language
    IN  IF ~Hashable(language) THEN Result(sess, <<>>, TRUE, "recv", NoText)
        ELSE IF language.t = "str" /\ language.s \in VALID_LANGUAGES
        THEN LET code == TARGET_LANGUAGE_CODES[LANGUAGE_NAME_TO_CODE_KEY[language.s]]
                 greeting_text == GreetingOf(language.s)
                 audio_b64 == TtsToBase64(cfgv, greeting_text, code, tts)
                 s1 == [sess EXCEPT !.language = language.s, !.language_code = code]
                 s2 == IF ~Falsy(audio_b64)
                       THEN [s1 EXCEPT !.cached_greeting_audio = audio_b64,
                                       !.cached_greeting_message =
                                           GreetingMessage(greeting_text)]
                       ELSE s1
             IN  Result(s2, <<Env(5, Null)>>, FALSE, "recv", NoText)
        ELSE Result(sess, <<Env(5, Null)>>, FALSE, "recv", NoText)

\* Faulty variant of HandleConversationStarted: the cache is served and kept.
HandleConversationStartedKeepsCache(cfgv, sess, tts) ==
    LET lang == IF sess.language = NoneStr THEN "English" ELSE sess.language
        greeting_text == GreetingOf(lang)
        cached == sess.cached_greeting_audio
    IN  IF ~Falsy(cached) /\ ~Falsy(sess.cached_greeting_message)
        THEN Result(sess,
                    <<Env(5, [messages |-> <<sess.cached_greeting_message>>,
                              isSpeaking |-> TRUE, audioBase64 |-> cached])>>,
                    FALSE, "recv", NoText)
        ELSE LET lang_code == IF sess.language_code = NoneStr
                              THEN TARGET_LANGUAGE_CODES["en"] ELSE sess.language_code
                 audio_b64 == TtsToBase64(cfgv, greeting_text, lang_code, tts)
                 payload ==
                     IF ~Falsy(audio_b64)
                     THEN [messages |-> <<GreetingMessage(greeting_text)>>,
                           isSpeaking |-> TRUE, audioBase64 |-> audio_b64]
                     ELSE [messages |-> <<GreetingMessage(greeting_text)>>,
                           isSpeaking |-> FALSE,
                           error |-> "Could not generate greeting audio."]
             IN  Result(sess, <<Env(5, payload)>>, FALSE, "recv", NoText)

\* main.py 221-247: conversation_started
HandleConversationStarted(cfgv, sess, tts) ==
    LET lang == IF sess.language = NoneStr THEN "English" ELSE sess.language
        greeting_text == GreetingOf(lang)
        cached == sess.cached_greeting_audio
    IN  IF ~Falsy(cached) /\ ~Falsy(sess.cached_greeting_message)
        THEN Result([sess EXCEPT !.cached_greeting_audio = NoneVal,
                                 !.cached_greeting_message = NoneVal],
                    <<Env(5, [messages |-> <<sess.cached_greeting_message>>,
                              isSpeaking |-> TRUE, audioBase64 |-> cached])>>,
                    FALSE, "recv", NoText)
        ELSE LET lang_code == IF sess.language_code = NoneStr
                              THEN TARGET_LANGUAGE_CODES["en"] ELSE sess.language_code
                 audio_b64 == TtsToBase64(cfgv, greeting_text, lang_code, tts)
                 payload ==
                     IF ~Falsy(audio_b64)
                     THEN [messages |-> <<GreetingMessage(greeting_text)>>,
                           isSpeaking |-> TRUE, audioBase64 |-> audio_b64]
                     ELSE [messages |-> <<GreetingMessage(greeting_text)>>,
                           isSpeaking |-> FALSE,
                           error |-> "Could not generate greeting audio."]
             IN  Result(sess, <<Env(5, payload)>>, FALSE, "recv", NoText)

\* Faulty variant of HandleUserMessage: the text is not stripped before the
\* emptiness test.
HandleUserMessageUnstripped(sess, msg) ==
    LET t == msg.text
    IN  IF Truthy(t) /\ t.t # "text" THEN Result(sess, <<>>, TRUE, "recv", NoText)
        ELSE LET text == IF Truthy(t) THEN t.r ELSE <<>>
             IN  IF text = <<>>
                 THEN Result(sess, <<MissingText>>, FALSE, "recv", NoText)
                 ELSE Result(sess, <<Processing>>, FALSE, "replying", Txt("", text))

\* main.py 248-256: user_message.  (msg.get("text") or "").strip() raises for a
\* truthy value that is no string.
HandleUserMessage(sess, msg) ==
    LET t == msg.text
    IN  IF Truthy(t) /\ t.t # "text" THEN Result(sess, <<>>, TRUE, "recv", NoText)
        ELSE LET text == IF Truthy(t) THEN Strip(t.r) ELSE <<>>
             IN  IF text = <<>>
                 THEN Result(sess, <<MissingText>>, FALSE, "recv", NoText)
                 ELSE Result(sess, <<Processing>>, FALSE, "replying", Txt("", text))

\* main.py 257-272: toggle_mic / mic_start up to the await of the worker.  When
\* the worker cannot be started to_thread raises, which leaves wav_bytes None.
HandleMicStart(sess, spawned) ==
    IF spawned THEN Result(sess, <<Processing>>, FALSE, "recording", NoText)
    ELSE Result(sess, <<Processing, MicCaptureFailed>>, FALSE, "recv", NoText)

\* Faulty variant of HandleMsg: wake starts the session afresh, and an unknown
\* action is answered like wake.
HandleMsgWakeResets(cfgv, sess, msg, tts, spawned) ==
    LET action == ActionOf(msg)
    IN  CASE IsAction(action, "wake") ->
                Result(InitSession, <<Env(3, Null)>>, FALSE, "recv", NoText)
          [] IsAction(action, "language_selected") ->
                HandleLanguageSelected(cfgv, sess, msg, tts)
          [] IsAction(action, "conversation_started") ->
                HandleConversationStarted(cfgv, sess, tts)
          [] IsAction(action, "user_message") -> HandleUserMessage(sess, msg)
          [] IsAction(action, "toggle_mic") \/ IsAction(action, "mic_start") ->
                HandleMicStart(sess, spawned)
          [] IsAction(action, "mic_stop") \/ IsAction(action, "mic_cancel") ->
                Result(sess, <<Env(5, [isProcessing |-> FALSE])>>, FALSE, "recv", NoText)
          [] OTHER -> Result(sess, <<Env(3, Null)>>, FALSE, "recv", NoText)

\* main.py 203-293: the if/elif chain over the action name
HandleMsg(cfgv, sess, msg, tts, spawned) ==
    LET action == ActionOf(msg)
    IN  CASE IsAction(action, "wake") ->
                Result(sess, <<Env(3, Null)>>, FALSE, "recv", NoText)
          [] IsAction(action, "language_selected") ->
                HandleLanguageSelected(cfgv, sess, msg, tts)
          [] IsAction(action, "conversation_started") ->
                HandleConversationStarted(cfgv, sess, tts)
          [] IsAction(action, "user_message") -> HandleUserMessage(sess, msg)
          [] IsAction(action, "toggle_mic") \/ IsAction(action, "mic_start") ->
                HandleMicStart(sess, spawned)
          [] IsAction(action, "mic_stop") \/ IsAction(action, "mic_cancel") ->
                Result(sess, <<Env(5, [isProcessing |-> FALSE])>>, FALSE, "recv", NoText)
          [] OTHER -> Result(sess, <<Env(5, msg)>>, FALSE, "recv", NoText)

\* main.py 201-203: the parse in front of the chain; a raise is caught at 294.
HandleFrame(cfgv, sess, f, tts, spawned) ==
    LET p == ParseFrame(f.data)
    IN  IF ~p.ok THEN Result(sess, <<>>, TRUE, "recv", NoText)
        ELSE HandleMsg(cfgv, sess, p.msg, tts, spawned)

\* The outcomes of the collaborator calls a frame's handler can make before its
\* first suspension: a synthesis call (only with a key, only for the greeting)
\* and the start of the capture worker.
FrameAction(f) ==
    IF f.kind = "text" /\ f.data.t = "object" THEN ActionOf(f.data.msg) ELSE Absent
TtsChoices(cfgv, f) ==
    IF cfgv.sarvam /\ (IsAction(FrameAction(f), "language_selected")
                       \/ IsAction(FrameAction(f), "conversation_started"))
    THEN TtsOutcomes ELSE {"raise"}
SpawnChoices(f) ==
    IF IsAction(FrameAction(f), "toggle_mic") \/ IsAction(FrameAction(f), "mic_start")
    THEN BOOLEAN ELSE {TRUE}

\* A frame that may start the reply pipeline.
Utterance(f) ==
    /\ f.kind = "text"
    /\ f.data.t = "object"
    /\ LET a == ActionOf(f.data.msg)
       IN  \/ IsAction(a, "toggle_mic")
           \/ IsAction(a, "mic_start")
           \/ (IsAction(a, "user_message") /\ Truthy(f.data.msg.text))

\* ------------------------------------------------------------------ state
Conns == {1, 2}
Idle == 0

VARIABLES
    cfg,          \* the process configuration
    pc,           \* per connection: where websocket_clara stands
    clientOpen,   \* per connection: the client has not disconnected
    inbox,        \* per connection: frames sent by the client and not yet read
    session,      \* per connection: the session dict
    text,         \* per connection: the text handed to the reply pipeline
    worker,       \* per connection: the record_audio thread of the frame read last
    loop,         \* the connection whose handler occupies the event loop
    uuidCount,    \* uuid4 values drawn so far
    turns,        \* per connection: utterance frames read
    handling,     \* per connection: frames read whose handling has not ended
    lastFrame,    \* per connection: the frame read last
    sent,         \* per connection: envelopes sent since the last frame was read
    servedDuring, \* per connection: another connection was answered during its capture
    outcome,      \* per connection: what transcription, retrieval and generation
                  \* returned while the frame read last was handled
    delivered,    \* per connection: the messages delivered since accept, in the
                  \* specifications that keep this record (NotKept in the others)
    rec           \* one call of record_audio or of one of its helpers, in the
                  \* specifications of the capture pipeline (NoRec in the others)

vars ==
    <<cfg, pc, clientOpen, inbox, session, text, worker, loop, uuidCount, turns,
      handling, lastFrame, sent, servedDuring, outcome, delivered, rec>>
serverVars ==
    <<cfg, pc, clientOpen, inbox, session, text, worker, loop, uuidCount, turns,
      handling, lastFrame, sent, servedDuring, outcome, delivered>>

IdleWorker == [st |-> "idle", wav |-> NoneVal, cause |-> "none"]
NoOutcome == [stt |-> <<>>, reply |-> <<>>]
NotKept == {Message(<<"", 0>>, "", NoText)}

NoRec == [k |-> "none"]

InitServer(configs, keeps) ==
    /\ cfg \in configs
    /\ pc = [c \in Conns |-> "connecting"]
    /\ clientOpen = [c \in Conns |-> TRUE]
    /\ inbox = [c \in Conns |-> 0]
    /\ session = [c \in Conns |-> InitSession]
    /\ text = [c \in Conns |-> NoText]
    /\ worker = [c \in Conns |-> IdleWorker]
    /\ loop = Idle
    /\ uuidCount = 0
    /\ turns = [c \in Conns |-> 0]
    /\ handling = [c \in Conns |-> <<>>]
    /\ lastFrame = [c \in Conns |-> NoFrame]
    /\ sent = [c \in Conns |-> <<>>]
    /\ servedDuring = [c \in Conns |-> FALSE]
    /\ outcome = [c \in Conns |-> NoOutcome]
    /\ delivered = [c \in Conns |-> IF keeps THEN {} ELSE NotKept]

InitWith(configs, keeps) == InitServer(configs, keeps) /\ rec = NoRec

Init == InitWith(Configs, FALSE)

\* ---------------------------------------------------------------- actions
\* Faulty variant of Accept: the connection is accepted without the initial
\* state 0.
AcceptSilent(c) ==
    /\ pc[c] = "connecting"
    /\ loop = Idle
    /\ pc' = [pc EXCEPT ![c] = "recv"]
    /\ session' = [session EXCEPT ![c] = InitSession]
    /\ sent' = [sent EXCEPT ![c] = <<>>]
    /\ UNCHANGED <<cfg, clientOpen, inbox, text, worker, loop, uuidCount, turns,
                   handling, lastFrame, servedDuring, outcome,
                   delivered, rec>>

\* main.py 193-198: accept, the fresh session, the initial state 0.
Accept(c) ==
    /\ pc[c] = "connecting"
    /\ loop = Idle
    /\ pc' = [pc EXCEPT ![c] = "recv"]
    /\ session' = [session EXCEPT ![c] = InitSession]
    /\ sent' = [sent EXCEPT ![c] = <<IdleEnv>>]
    /\ UNCHANGED <<cfg, clientOpen, inbox, text, worker, loop, uuidCount, turns,
                   handling, lastFrame, servedDuring, outcome,
                   delivered, rec>>

\* The client sends one more frame.
ClientSend(c) ==
    /\ pc[c] \notin {"connecting", "closed"}
    /\ clientOpen[c]
    /\ inbox[c] < MaxInbox
    /\ inbox' = [inbox EXCEPT ![c] = @ + 1]
    /\ UNCHANGED <<cfg, pc, clientOpen, session, text, worker, loop, uuidCount,
                   turns, handling, lastFrame, sent, servedDuring, outcome,
                   delivered, rec>>

\* The client disconnects.
ClientClose(c) ==
    /\ pc[c] \notin {"connecting", "closed"}
    /\ clientOpen[c]
    /\ clientOpen' = [clientOpen EXCEPT ![c] = FALSE]
    /\ UNCHANGED <<cfg, pc, inbox, session, text, worker, loop, uuidCount, turns,
                   handling, lastFrame, sent, servedDuring, outcome,
                   delivered, rec>>

\* Faulty variant of CanReceive: the next frame is read while a capture runs.
CanReceiveDuringCapture(c) ==
    pc[c] \in {"recv", "recording"}

\* main.py 199-200: the loop reads the next frame only here.
CanReceive(c) ==
    pc[c] = "recv"

\* Connections whose capture is running while connection c is answered.
Capturing(c) ==
    {d \in Conns \ {c} : pc[d] = "recording" /\ worker[d].st = "running"}

\* The messages carried by the payloads of a sequence of envelopes.
MessagesIn(envs) ==
    UNION {{envs[i].payload.messages[k] : k \in 1..Len(envs[i].payload.messages)} :
              i \in {j \in 1..Len(envs) : "messages" \in DOMAIN envs[j].payload}}

\* Faulty variant of Deliver: the inner except clause sends nothing.
DeliverSilentExcept(c, before, envs, raised, next) ==
    IF clientOpen[c]
    THEN /\ sent' = [sent EXCEPT ![c] = before \o envs]
         /\ pc' = [pc EXCEPT ![c] = IF raised THEN "recv" ELSE next]
         /\ UNCHANGED rec
         /\ delivered' = [delivered EXCEPT ![c] =
                             IF @ = NotKept THEN @ ELSE @ \cup MessagesIn(envs)]
    ELSE /\ sent' = [sent EXCEPT ![c] = before]
         /\ pc' = [pc EXCEPT ![c] = "closed"]
         /\ UNCHANGED <<delivered, rec>>

\* Envelopes leave in the order the handler produced them; a send on a
\* connection the client has left raises, and so do the sends of the two
\* except clauses (main.py 294-305), which ends websocket_clara.
Deliver(c, before, envs, raised, next) ==
    IF clientOpen[c]
    THEN /\ sent' = [sent EXCEPT ![c] =
                        IF raised THEN before \o envs \o <<IdleEnv>> ELSE before \o envs]
         /\ pc' = [pc EXCEPT ![c] = IF raised THEN "recv" ELSE next]
         /\ UNCHANGED rec
         /\ delivered' = [delivered EXCEPT ![c] =
                             IF @ = NotKept THEN @ ELSE @ \cup MessagesIn(envs)]
    ELSE /\ sent' = [sent EXCEPT ![c] = before]
         /\ pc' = [pc EXCEPT ![c] = "closed"]
         /\ UNCHANGED <<delivered, rec>>

\* main.py 200, 296-305: receive_text raises (the client left, or the frame is
\* not a text frame); -1 is attempted and the connection closed.
ReceiveFails(c, description) ==
    /\ sent' = [sent EXCEPT ![c] =
                   IF clientOpen[c] THEN <<FatalEnv(description)>> ELSE <<>>]
    /\ pc' = [pc EXCEPT ![c] = "closed"]
    /\ worker' = [worker EXCEPT ![c] = IdleWorker]
    /\ outcome' = [outcome EXCEPT ![c] = NoOutcome]
    /\ UNCHANGED <<session, text, loop, turns, handling, servedDuring, delivered, rec>>

\* Faulty variant of LoopDuringCapture: record_audio() is called on the event
\* loop itself.
LoopHeldDuringCapture(c) ==
    c

\* main.py 261: await asyncio.to_thread(record_audio) suspends the handler and
\* leaves the event loop to the other handlers while the worker thread records.
LoopDuringCapture(c) ==
    Idle

\* Faulty variant of ReceiveText: the session is one dict of the module, which
\* every connection reads and writes.
ReceiveTextSharedSession(c, f, tts, spawned) ==
    LET r == HandleFrame(cfg, session[c], f, tts, spawned)
        goes == clientOpen[c] /\ ~r.raised
    IN  /\ session' = [d \in Conns |-> r.sess]
        /\ Deliver(c, <<>>, r.envs, r.raised, r.next)
        /\ text' = [text EXCEPT ![c] = IF goes THEN r.text ELSE NoText]
        /\ worker' = [worker EXCEPT ![c] =
                         IF goes /\ r.next = "recording"
                         THEN [st |-> "running", wav |-> NoneVal, cause |-> "none"]
                         ELSE IdleWorker]
        /\ turns' = [turns EXCEPT ![c] = IF Utterance(f) THEN @ + 1 ELSE @]
        /\ handling' = [handling EXCEPT ![c] =
                           IF goes /\ r.next # "recv" THEN @ \o <<f>> ELSE @]
        /\ servedDuring' =
               [d \in Conns |->
                   IF d = c THEN (IF goes /\ r.next = "recording" THEN FALSE
                                  ELSE servedDuring[d])
                   ELSE IF d \in Capturing(c) /\ clientOpen[c] THEN TRUE
                   ELSE servedDuring[d]]
        /\ loop' = IF goes /\ r.next = "recording" THEN LoopDuringCapture(c) ELSE loop
        /\ outcome' = [outcome EXCEPT ![c] = NoOutcome]

\* main.py 200-295: one text frame through the dispatch, up to its first
\* suspension.
ReceiveText(c, f, tts, spawned) ==
    LET r == HandleFrame(cfg, session[c], f, tts, spawned)
        goes == clientOpen[c] /\ ~r.raised
    IN  /\ session' = [session EXCEPT ![c] = r.sess]
        /\ Deliver(c, <<>>, r.envs, r.raised, r.next)
        /\ text' = [text EXCEPT ![c] = IF goes THEN r.text ELSE NoText]
        /\ worker' = [worker EXCEPT ![c] =
                         IF goes /\ r.next = "recording"
                         THEN [st |-> "running", wav |-> NoneVal, cause |-> "none"]
                         ELSE IdleWorker]
        /\ turns' = [turns EXCEPT ![c] = IF Utterance(f) THEN @ + 1 ELSE @]
        /\ handling' = [handling EXCEPT ![c] =
                           IF goes /\ r.next # "recv" THEN @ \o <<f>> ELSE @]
        /\ servedDuring' =
               [d \in Conns |->
                   IF d = c THEN (IF goes /\ r.next = "recording" THEN FALSE
                                  ELSE servedDuring[d])
                   ELSE IF d \in Capturing(c) /\ clientOpen[c] THEN TRUE
                   ELSE servedDuring[d]]
        /\ loop' = IF goes /\ r.next = "recording" THEN LoopDuringCapture(c) ELSE loop
        /\ outcome' = [outcome EXCEPT ![c] = NoOutcome]

Receive(c, frames) ==
    /\ CanReceive(c)
    /\ loop = Idle
    /\ IF inbox[c] = 0
       THEN /\ ~clientOpen[c]
            /\ ReceiveFails(c, "")
            /\ UNCHANGED <<inbox, lastFrame>>
       ELSE /\ inbox' = [inbox EXCEPT ![c] = @ - 1]
            /\ \E f \in frames :
                /\ Utterance(f) => turns[c] < MaxTurns
                /\ lastFrame' = [lastFrame EXCEPT ![c] = f]
                /\ IF f.kind = "binary"
                   THEN ReceiveFails(c, "'text'")
                   ELSE \E tts \in TtsChoices(cfg, f), spawned \in SpawnChoices(f) :
                            ReceiveText(c, f, tts, spawned)
    /\ UNCHANGED <<cfg, clientOpen, uuidCount>>

\* audio_pipeline.py 108-178: the worker thread runs record_audio to its end.
Capture(c) ==
    /\ worker[c].st = "running"
    /\ \E e \in EnvsOfMode(cfg.mode) :
        worker' = [worker EXCEPT ![c] =
                      [st |-> "done", wav |-> RecordAudio(e), cause |-> CaptureCause(e)]]
    /\ UNCHANGED <<cfg, pc, clientOpen, inbox, session, text, loop, uuidCount, turns,
                   handling, lastFrame, sent, servedDuring, outcome,
                   delivered, rec>>

\* Faulty variant of CaptureFailed: every capture result goes to transcription,
\* whose own guard is relied on.
CaptureFailedLeftToStt(wav_bytes) ==
    FALSE

\* main.py 264: if not wav_bytes
CaptureFailed(wav_bytes) ==
    Falsy(wav_bytes)

\* main.py 261-274: the handler resumes with the worker's result; a falsy
\* result is answered at once, any other goes to wav_to_transcript, which
\* runs on the event loop.
ResumeMic(c) ==
    /\ pc[c] = "recording"
    /\ worker[c].st = "done"
    /\ loop = Idle
    /\ IF CaptureFailed(worker[c].wav)
       THEN /\ Deliver(c, sent[c], <<MicCaptureFailed>>, FALSE, "recv")
            /\ handling' = [handling EXCEPT ![c] = Tail(@)]
            /\ worker' = [worker EXCEPT ![c].st = "idle"]
            /\ loop' = Idle
       ELSE /\ pc' = [pc EXCEPT ![c] = "transcribing"]
            /\ loop' = c
            /\ UNCHANGED <<sent, handling, worker, delivered, rec>>
    /\ UNCHANGED <<cfg, clientOpen, inbox, session, text, uuidCount, turns,
                   lastFrame, servedDuring, outcome>>

\* main.py 274-286: the transcript decides between the typed error and the
\* reply pipeline, whose first statement (main.py 72) sends isProcessing again.
FinishTranscribe(c, stts) ==
    /\ pc[c] = "transcribing"
    /\ loop = c
    /\ \E o \in stts :
        LET transcript == WavToTranscript(cfg, worker[c].wav, o)
            blank == Falsy(transcript) \/ Strip(transcript.rle) = <<>>
        IN  /\ IF blank
               THEN /\ Deliver(c, sent[c], <<NoSpeechDetected>>, FALSE, "recv")
                    /\ handling' = [handling EXCEPT ![c] = Tail(@)]
                    /\ UNCHANGED text
               ELSE /\ Deliver(c, sent[c], <<Processing>>, FALSE, "replying")
                    /\ handling' = [handling EXCEPT ![c] =
                                       IF clientOpen[c] THEN @ ELSE Tail(@)]
                    /\ text' = [text EXCEPT ![c] = Txt("", Strip(transcript.rle))]
            /\ outcome' = [outcome EXCEPT ![c].stt = <<o>>]
    /\ worker' = [worker EXCEPT ![c].st = "idle", ![c].wav = NoneVal]
    /\ loop' = Idle
    /\ UNCHANGED <<cfg, clientOpen, inbox, session, uuidCount, turns,
                   lastFrame, servedDuring>>

\* main.py 72-75: after the send of isProcessing the pipeline goes on with
\* calls that do not leave the event loop (retrieval, generation, synthesis).
RunReply(c) ==
    /\ pc[c] = "replying"
    /\ loop = Idle
    /\ pc' = [pc EXCEPT ![c] = "generating"]
    /\ loop' = c
    /\ UNCHANGED <<cfg, clientOpen, inbox, session, text, worker, uuidCount, turns,
                   handling, lastFrame, sent, servedDuring, outcome,
                   delivered, rec>>

\* Faulty variant of FinalPayload: only the reply is listed.
FinalPayloadReplyOnly(user_msg, assistant_msg, audio_b64) ==
    IF ~Falsy(audio_b64)
    THEN [messages |-> <<assistant_msg>>, isProcessing |-> FALSE,
          isSpeaking |-> TRUE, audioBase64 |-> audio_b64]
    ELSE [messages |-> <<assistant_msg>>, isProcessing |-> FALSE,
          isSpeaking |-> FALSE, error |-> "Reply is shown but could not be read aloud."]

\* Faulty variant of FinalPayload: no warning when there is no audio.
FinalPayloadNoWarning(user_msg, assistant_msg, audio_b64) ==
    IF ~Falsy(audio_b64)
    THEN [messages |-> <<user_msg, assistant_msg>>, isProcessing |-> FALSE,
          isSpeaking |-> TRUE, audioBase64 |-> audio_b64]
    ELSE [messages |-> <<user_msg, assistant_msg>>, isProcessing |-> FALSE,
          isSpeaking |-> FALSE]

\* main.py 126-140: the two messages, the history, the final payload.
FinalPayload(user_msg, assistant_msg, audio_b64) ==
    IF ~Falsy(audio_b64)
    THEN [messages |-> <<user_msg, assistant_msg>>, isProcessing |-> FALSE,
          isSpeaking |-> TRUE, audioBase64 |-> audio_b64]
    ELSE [messages |-> <<user_msg, assistant_msg>>, isProcessing |-> FALSE,
          isSpeaking |-> FALSE, error |-> "Reply is shown but could not be read aloud."]

\* main.py 73-140: the reply pipeline from retrieval to the final envelope.
FinishReply(c, contexts, gens, ttss) ==
    /\ pc[c] = "generating"
    /\ loop = c
    /\ \E context \in contexts, gen \in gens,
          tts \in (IF cfg.sarvam THEN ttss ELSE {"raise"}) :
        LET sess == session[c]
            lang_code == IF sess.language_code = NoneStr
                         THEN TARGET_LANGUAGE_CODES["en"] ELSE sess.language_code
            reply_text == ReplyText(cfg, context, gen)
            user_msg == Message(<<"user-", uuidCount + 1>>, "user", text[c])
            assistant_msg == Message(<<"clara-", uuidCount + 2>>, "clara", reply_text)
            audio_b64 == TtsToBase64(cfg, reply_text, lang_code, tts)
        IN  /\ session' = [session EXCEPT ![c].messages = @ \o <<user_msg, assistant_msg>>]
            /\ Deliver(c, sent[c],
                       <<Env(5, FinalPayload(user_msg, assistant_msg, audio_b64))>>,
                       FALSE, "recv")
            /\ outcome' = [outcome EXCEPT ![c].reply =
                               <<[context |-> context, gen |-> gen]>>]
    /\ uuidCount' = uuidCount + 2
    /\ handling' = [handling EXCEPT ![c] = Tail(@)]
    /\ text' = [text EXCEPT ![c] = NoText]
    /\ loop' = Idle
    /\ UNCHANGED <<cfg, clientOpen, inbox, worker, turns, lastFrame, servedDuring>>

\* ---------------------------------------------------------- specifications
\* One connection, every frame of the vocabulary; retrieval finds nothing or a
\* short text, generation fails or answers.
SpecContexts == {<<>>, << <<"w", 10>> >>}
SpecGens == [k : {"raise"}] \cup [k : {"content"}, r : {PaddedWord}]

Next ==
    \E c \in {1} :
        \/ Accept(c)
        \/ ClientSend(c)
        \/ ClientClose(c)
        \/ Receive(c, AllFrames)
        \/ Capture(c)
        \/ ResumeMic(c)
        \/ FinishTranscribe(c, SttOutcomes)
        \/ RunReply(c)
        \/ FinishReply(c, SpecContexts, SpecGens, TtsOutcomes)

Spec == Init /\ [][Next]_vars

\* One connection, the frames that run the reply pipeline, every context.
ReplyFrames ==
    {TextFrame(ObjData(Act("toggle_mic"))),
     TextFrame(ObjData(Msg(JStr("user_message"), Absent, Absent, JText(PaddedWord))))}

NextReply ==
    \E c \in {1} :
        \/ Accept(c)
        \/ ClientSend(c)
        \/ ClientClose(c)
        \/ Receive(c, ReplyFrames)
        \/ Capture(c)
        \/ ResumeMic(c)
        \/ FinishTranscribe(c, SttOutcomes)
        \/ RunReply(c)
        \/ FinishReply(c, Contexts, GenOutcomes, TtsOutcomes)

SpecReply == Init /\ [][NextReply]_vars

\* Two connections on one event loop and one input device; both clients stay
\* connected, and the collaborators either answer or (transcription) fail.
ConcConfigs == {k \in Configs : k.groq /\ k.sarvam}
ConcContexts == {<<>>}
ConcGens == [k : {"content"}, r : {PaddedWord}]
ConcStts == [k : {"raise"}] \cup [k : {"text"}, r : {PaddedWord}]
ConcTts == {"audio"}

InitConc == InitWith(ConcConfigs, FALSE)

NextConc ==
    \E c \in Conns :
        \/ Accept(c)
        \/ ClientSend(c)
        \/ Receive(c, ConcFrames)
        \/ Capture(c)
        \/ ResumeMic(c)
        \/ FinishTranscribe(c, ConcStts)
        \/ RunReply(c)
        \/ FinishReply(c, ConcContexts, ConcGens, ConcTts)

SpecConc == InitConc /\ [][NextConc]_vars

\* One connection without the microphone: languages, greetings and typed
\* messages, with the record of the messages delivered.
SessionFrames ==
    {TextFrame(ObjData(Act(a))) : a \in {"wake", "conversation_started"}}
    \cup {TextFrame(ObjData(Msg(Absent, JStr("wake"), Absent, Absent)))}
    \cup {TextFrame(ObjData(Msg(JStr("language_selected"), Absent, l, Absent))) :
            l \in LanguageInputs}
    \cup {TextFrame(ObjData(Msg(JStr("user_message"), Absent, Absent, t))) :
            t \in TextInputs}
SessionConfigs == {k \in Configs : k.mode = "fixed"}
SessionContexts == {<<>>}
SessionGens == [k : {"raise"}] \cup [k : {"content"}, r : {PaddedWord}]

InitSessionSpec == InitWith(SessionConfigs, TRUE)

NextSession ==
    \E c \in {1} :
        \/ Accept(c)
        \/ ClientSend(c)
        \/ ClientClose(c)
        \/ Receive(c, SessionFrames)
        \/ RunReply(c)
        \/ FinishReply(c, SessionContexts, SessionGens, TtsOutcomes)

SpecSession == InitSessionSpec /\ [][NextSession]_vars

\* Two connections without the microphone, each with a session of its own:
\* languages, greetings and typed messages.
TwoFrames ==
    {TextFrame(ObjData(Act("conversation_started"))),
     TextFrame(ObjData(Msg(JStr("language_selected"), Absent, JStr("Hindi"), Absent))),
     TextFrame(ObjData(Msg(JStr("user_message"), Absent, Absent, JText(PaddedWord))))}
TwoConfigs == {k \in Configs : k.mode = "fixed" /\ k.sarvam /\ ~k.groq}
TwoContexts == {<<>>}
TwoGens == [k : {"raise"}]
TwoTts == {"audio", "raise"}

InitTwoSessions == InitWith(TwoConfigs, FALSE)

NextTwoSessions ==
    \E c \in Conns :
        \/ Accept(c)
        \/ ClientSend(c)
        \/ Receive(c, TwoFrames)
        \/ RunReply(c)
        \/ FinishReply(c, TwoContexts, TwoGens, TwoTts)

SpecTwoSessions == InitTwoSessions /\ [][NextTwoSessions]_vars

\* -------------------------------------------------- the capture pipeline
\* The helpers of record_audio on their own: one call with its inputs drawn at
\* the start, the server at rest.
InitPipeline(calls) == InitServer({[groq |-> FALSE, sarvam |-> FALSE, mode |-> "vad"]}, FALSE) /\ rec \in calls
NoOut == [pending |-> TRUE]

\* Device resolution: what sd.query_devices() and sd.default.device[0] return
\* and what AUDIO_INPUT_DEVICE_INDEX and AUDIO_INPUT_DEVICE_NAME hold.
DeviceNames == {NoneVal, StrVal(<<"U", "S", "B">>), StrVal(<<"M", "i", "c">>)}
DeviceEntries == {Device(n, ch) : n \in DeviceNames, ch \in {0, 2}}
DeviceLists == UNION {[1..n -> DeviceEntries] : n \in 0..MaxDevices}
DefaultDevices == {NoneVal, IntVal(-1), IntVal(0), IntVal(1)}
ConfiguredIndexes == {NoneVal, IntVal(0), IntVal(1), IntVal(5)}
ConfiguredNames == {NoneVal, StrVal(<<"u", "S">>), StrVal(<<"x">>)}
ResolveCalls ==
    [k : {"resolve"}, devices : DeviceLists, default_device : DefaultDevices,
     index : ConfiguredIndexes, name : ConfiguredNames, out : {NoOut}]

CallResolveInputDevice ==
    /\ rec.k = "resolve"
    /\ rec.out = NoOut
    /\ rec' = [rec EXCEPT !.out = ResolveInputDevice(rec.devices, rec.default_device,
                                                     rec.index, rec.name)]
    /\ UNCHANGED serverVars

InitDevice == InitPipeline(ResolveCalls)
NextDevice == CallResolveInputDevice
SpecDevice == InitDevice /\ [][NextDevice]_vars

\* The VAD loop of record_audio over a stream of blocks.  The device delivers
\* some runs of blocks and then one kind of block for ever: "q" a block of one
\* sub-frame without speech, "v" one with speech, "s" a block of half a
\* sub-frame, "x" a read that raises.
RunOptions == {<<"q", 1>>, <<"q", silence_frames_to_stop - 1>>, <<"v", 1>>, <<"s", 1>>, <<"x", 1>>}
StreamPrefixes == UNION {[1..n -> RunOptions] : n \in 0..MaxRuns}
VadCalls ==
    [k : {"vad"}, stream : StreamPrefixes, settled : {"q", "v", "s"}, tick : {0},
     st : {VadLocals}, out : {NoOut}, pulled : {<<>>}, heard : {<<>>}]

\* The same without the record of what was pulled, for streams that settle
\* into silence or into short blocks.
NotPulled == << <<-1, 0>> >>
VadLiveCalls ==
    [k : {"vad"}, stream : StreamPrefixes, settled : {"q", "s"}, tick : {0},
     st : {VadLocals}, out : {NoOut}, pulled : {NotPulled}, heard : {<<>>}]

\* frame, _frame_to_mono(frame) and vad.is_speech of its sub-frames
BlockMono(kind) ==
    CASE kind = "q" -> << <<0, SAMPLES_PER_FRAME>> >>
      [] kind = "v" -> << <<1000, SAMPLES_PER_FRAME>> >>
      [] kind = "s" -> << <<7, SAMPLES_PER_FRAME \div 2>> >>
BlockSpeech(kind) ==
    CASE kind = "q" -> <<FALSE>>
      [] kind = "v" -> <<TRUE>>
      [] kind = "s" -> <<>>

NextKind(r) == IF r.stream = <<>> THEN r.settled ELSE Head(r.stream)[1]
RestOfStream(stream) ==
    IF stream = <<>> THEN <<>>
    ELSE IF Head(stream)[2] > 1
         THEN << <<Head(stream)[1], Head(stream)[2] - 1>> >> \o Tail(stream)
         ELSE Tail(stream)

\* The sub-frames a block hands to the classifier, as a run-length history.
RECURSIVE HeardOf(_)
HeardOf(speech) ==
    IF speech = <<>> THEN <<>>
    ELSE Concat(<< <<IF Head(speech) THEN "v" ELSE "q", 1>> >>, HeardOf(Tail(speech)))

\* 143-178: stream.read and one pass of the loop; an exception ends the call
\* with None.  pulled and heard record what came off the device before the
\* sub-frame that ended the capture and what the classifier was shown; tick
\* is the parity of the blocks read.
ReadBlock ==
    /\ rec.k = "vad"
    /\ rec.out = NoOut
    /\ RLen(IF rec.pulled = NotPulled THEN rec.st.accumulated ELSE rec.pulled)
           < MaxCaptureBlocks * SAMPLES_PER_FRAME
    /\ LET kind == NextKind(rec)
       IN  IF kind = "x"
           THEN rec' = [rec EXCEPT !.stream = RestOfStream(@),
                                   !.tick = 1 - @,
                                   !.out = [ret |-> NoneVal, end |-> "error"]]
           ELSE LET raw_mono == BlockMono(kind)
                    b == VadBlock(rec.st, raw_mono, BlockSpeech(kind))
                IN  rec' = [rec EXCEPT
                              !.stream = RestOfStream(@),
                              !.tick = 1 - @,
                              !.st = b.st,
                              !.out = CASE b.end = "stop" ->
                                             [ret |-> VadStop(<<b.st.accumulated>>),
                                              end |-> "stop"]
                                        [] b.end = "timeout" ->
                                             [ret |-> NoneVal, end |-> "timeout"]
                                        [] OTHER -> NoOut,
                              !.pulled = IF b.end = "stop" \/ @ = NotPulled THEN @
                                         ELSE Concat(@, raw_mono),
                              !.heard = IF ByteLen(raw_mono) < BYTES_PER_FRAME THEN @
                                        ELSE Concat(@, HeardOf(BlockSpeech(kind)))]
    /\ UNCHANGED serverVars

InitVad == InitPipeline(VadCalls)
NextVad == ReadBlock
SpecVad == InitVad /\ [][NextVad]_vars
\* The device keeps delivering blocks and the worker thread keeps running.
InitVadLive == InitPipeline(VadLiveCalls)
SpecVadLive == InitVadLive /\ [][NextVad]_vars /\ WF_vars(ReadBlock)

\* Fixed-duration capture: AUDIO_FIXED_RECORD_SECONDS in tenths of a second,
\* AUDIO_CHANNELS, the input channels of the device, and the level of the sound.
ConfiguredTenths == {0, 4, 5, 40, 41, 300, 301, 999}
ConfiguredChannels == {0, 1, 2, 3}
DeviceChannels == {0, 1, 2, 4}
FixedCalls ==
    [k : {"fixed"}, seconds_tenths : ConfiguredTenths, audio_channels : ConfiguredChannels,
     max_input_channels : DeviceChannels, amplitude : Amplitudes, out : {NoOut}]

CallRecordFixedDuration ==
    /\ rec.k = "fixed"
    /\ rec.out = NoOut
    /\ LET channels == Channels(rec.max_input_channels, rec.audio_channels)
           samples_total == SamplesTotal(rec.seconds_tenths, channels)
           mono == MonoOfRec(samples_total, rec.amplitude)
       IN  rec' = [rec EXCEPT !.out =
                      [channels |-> channels,
                       duration_tenths |-> DurationTenths(rec.seconds_tenths),
                       frames |-> samples_total,
                       mono |-> mono,
                       ret |-> RecordFixedDuration(mono)]]
    /\ UNCHANGED serverVars

InitFixed == InitPipeline(FixedCalls)
NextFixed == CallRecordFixedDuration
SpecFixed == InitFixed /\ [][NextFixed]_vars

\* WAV framing: a list of mono chunks, given to _build_wav_from_chunks as it
\* is and to _build_wav_from_mono_bytes joined.
PcmChunks ==
    {<<>>, << <<0, 1>> >>, << <<33, 1>> >>, << <<33, 2>> >>, << <<0, 1>>, <<33, 1>> >>}
ChunkLists == UNION {[1..n -> PcmChunks] : n \in 0..MaxChunks}
WavCalls ==
    [k : {"wav"}, chunks : ChunkLists, from_mono : {NoOut}, from_chunks : {NoOut}]

CallBuildWavFromMonoBytes ==
    /\ rec.k = "wav"
    /\ rec.from_mono = NoOut
    /\ rec' = [rec EXCEPT !.from_mono = BuildWavFromMonoBytes(JoinChunks(rec.chunks))]
    /\ UNCHANGED serverVars

CallBuildWavFromChunks ==
    /\ rec.k = "wav"
    /\ rec.from_chunks = NoOut
    /\ rec' = [rec EXCEPT !.from_chunks = BuildWavFromChunks(rec.chunks)]
    /\ UNCHANGED serverVars

InitWav == InitPipeline(WavCalls)
NextWav == CallBuildWavFromMonoBytes \/ CallBuildWavFromChunks
SpecWav == InitWav /\ [][NextWav]_vars

\* ------------------------------------------------------------ properties
Last(s) == s[Len(s)]
IsPrefix(s, t) == Len(s) <= Len(t) /\ SubSeq(t, 1, Len(s)) = s
FrameIs(f, a) ==
    f.kind = "text" /\ f.data.t = "object" /\ IsAction(ActionOf(f.data.msg), a)
MicFrame(f) == FrameIs(f, "toggle_mic") \/ FrameIs(f, "mic_start")
States == {-1, 0, 3, 5}

\* C1: on a connection whose client is still there, every frame read has been
\* answered with at least one state-tagged envelope by the time the next read
\* is due (or the connection has been closed); no frame is dropped silently.
C1_EveryFrameAnswered ==
    \A c \in Conns :
        (lastFrame[c].kind # "none" /\ clientOpen[c])
            => /\ Len(sent[c]) >= 1
               /\ \A i \in 1..Len(sent[c]) : sent[c][i].state \in States

\* A frame with an action the dispatch does not know has been answered.
C1_Witness ==
    /\ pc[1] = "recv"
    /\ clientOpen[1]
    /\ FrameIs(lastFrame[1], "menu_select")
    /\ Len(sent[1]) = 1

\* C3 (as stated): a well-formed frame whose handling raises (a member of the
\* wrong type) is answered with one -1 envelope and the connection is closed.
HandlerRaises(f) ==
    /\ f.kind = "text"
    /\ f.data.t = "object"
    /\ HandleMsg(cfg, InitSession, f.data.msg, "raise", TRUE).raised
C3_HandlerExceptionIsFatal ==
    \A c \in Conns :
        (pc[c] \in {"recv", "closed"} /\ clientOpen[c] /\ HandlerRaises(lastFrame[c]))
            => /\ pc[c] = "closed"
               /\ Len(sent[c]) = 1
               /\ sent[c][1].state = -1

\* C4: a text frame that is not empty and is no JSON object (text that is no
\* JSON, a JSON value that is no object) is answered with exactly one
\* {state: 0, payload: null}; the session is unchanged and the connection goes
\* on reading.
NotAnObject(f) == f.kind = "text" /\ f.data.t \in {"garbage", "array"}
C4_MalformedResetsToIdle ==
    [][\A c \in Conns :
          (inbox'[c] < inbox[c] /\ clientOpen[c] /\ NotAnObject(lastFrame'[c]))
              => /\ sent'[c] = <<IdleEnv>>
                 /\ session'[c] = session[c]
                 /\ pc'[c] = "recv"]_vars

\* A malformed frame has been answered on a session that has a language.
C4_Witness ==
    /\ pc[1] = "recv"
    /\ clientOpen[1]
    /\ lastFrame[1] = TextFrame(GarbageData)
    /\ sent[1] = <<IdleEnv>>
    /\ session[1].language = "Hindi"

\* C4 (as stated): every text frame that is empty or no JSON is answered with
\* exactly one {state: 0, payload: null}, session unchanged, connection open.
EmptyOrNoJson(f) == f.kind = "text" /\ f.data.t \in {"empty", "garbage"}
C4_EmptyTextResetsToIdle ==
    [][\A c \in Conns :
          (inbox'[c] < inbox[c] /\ clientOpen[c] /\ EmptyOrNoJson(lastFrame'[c]))
              => /\ sent'[c] = <<IdleEnv>>
                 /\ session'[c] = session[c]
                 /\ pc'[c] = "recv"]_vars

\* C5: a frame is read only when no earlier frame of the connection is in
\* flight; while one is in flight a frame the client sends changes neither the
\* capture nor what has been sent, and envelopes are only appended, in the
\* order the handler produces them.
C5_OneActionAtATime ==
    [][\A c \in Conns :
          /\ inbox'[c] < inbox[c] => (handling[c] = <<>> /\ pc[c] = "recv")
          /\ (handling[c] # <<>> /\ inbox'[c] > inbox[c])
                 => (worker'[c] = worker[c] /\ pc'[c] = pc[c] /\ sent'[c] = sent[c])
          /\ handling[c] # <<>>
                 => (Len(handling[c]) = 1 /\ IsPrefix(sent[c], sent'[c]))]_vars

\* A frame waits unread while the capture of the frame before it runs.
C5_Witness ==
    /\ pc[1] = "recording"
    /\ worker[1].st = "running"
    /\ inbox[1] = 1
    /\ handling[1] # <<>>

\* C2 (as stated): at most one record_audio call runs at a time in the
\* process, whatever the interleaving of mic actions on two connections.
C2_OneCaptureAtATime ==
    Cardinality({c \in Conns : worker[c].st = "running"}) <= 1

\* C6: while the capture of a connection runs on its worker the processing
\* acknowledgment has been sent, the capture does not hold the event loop, and
\* a frame waiting on another connection can be read unless that other
\* connection's own handler is in a blocking call.
C6_CaptureLeavesLoopFree ==
    \A c \in Conns :
        (pc[c] = "recording" /\ worker[c].st = "running")
            => /\ sent[c] = <<Processing>>
               /\ loop # c
               /\ \A d \in Conns \ {c} :
                     (pc[d] = "recv" /\ inbox[d] > 0 /\ loop \notin Conns \ {c})
                         => ENABLED Receive(d, ConcFrames)

\* Another connection has been answered while the capture is still running.
C6_Witness ==
    /\ pc[1] = "recording"
    /\ worker[1].st = "running"
    /\ servedDuring[1]
    /\ pc[2] = "recv"
    /\ Len(sent[2]) >= 1

\* C7 (as stated): a mic action is answered with exactly two state-5
\* envelopes, the processing envelope and then one result envelope.
C7_TwoEnvelopesPerMicAction ==
    \A c \in Conns :
        (pc[c] = "recv" /\ clientOpen[c] /\ MicFrame(lastFrame[c]))
            => /\ Len(sent[c]) = 2
               /\ sent[c][1] = Processing
               /\ sent[c][2].state = 5
               /\ sent[c][2] # Processing

\* C8: a capture that gave nothing (None or empty bytes, also when the worker
\* could not be started) ends with MIC_CAPTURE_FAILED and is not transcribed;
\* a capture whose transcript is missing or blank ends with NO_SPEECH_DETECTED;
\* both leave the session as it was and do not enter the reply pipeline.
BlankOutcome(o) == o.k # "text" \/ Strip(o.r) = <<>>
C8_TypedMicErrors ==
    [][\A c \in Conns :
          /\ (pc[c] = "recording" /\ pc'[c] # "recording" /\ clientOpen[c])
                 => IF Falsy(worker[c].wav)
                    THEN /\ pc'[c] = "recv"
                         /\ sent'[c] = sent[c] \o <<MicCaptureFailed>>
                         /\ session'[c] = session[c]
                    ELSE pc'[c] = "transcribing"
          /\ (pc[c] = "transcribing" /\ pc'[c] # "transcribing" /\ clientOpen[c])
                 => /\ ~Falsy(worker[c].wav)
                    /\ outcome'[c].stt # <<>>
                    /\ IF ~cfg.sarvam \/ BlankOutcome(outcome'[c].stt[1])
                       THEN /\ pc'[c] = "recv"
                            /\ sent'[c] = sent[c] \o <<NoSpeechDetected>>
                            /\ session'[c] = session[c]
                       ELSE pc'[c] = "replying"
          /\ (inbox'[c] < inbox[c] /\ MicFrame(lastFrame'[c]) /\ clientOpen[c]
              /\ pc'[c] = "recv")
                 => /\ sent'[c] = <<Processing, MicCaptureFailed>>
                    /\ session'[c] = session[c]]_vars

\* A capture that was not silent has been transcribed to a blank text.
C8_Witness ==
    /\ pc[1] = "recv"
    /\ clientOpen[1]
    /\ worker[1].cause = "ok"
    /\ outcome[1].stt = <<[k |-> "text", r |-> Sp]>>
    /\ sent[1] = <<Processing, NoSpeechDetected>>

\* C9 (as stated): the result of a silent capture can be told apart from the
\* result of a capture that timed out waiting for speech.
C9_SilentDistinctFromTimeout ==
    \A c, d \in Conns :
        (pc[c] = "recv" /\ pc[d] = "recv"
         /\ worker[c].cause = "silent" /\ worker[d].cause = "timeout")
            => Last(sent[c]) # Last(sent[d])

\* C10: the reply pipeline ends with a state-5 envelope whose reply text is not
\* empty: the fixed message without a generator; after a generation that
\* raised or gave no text, the prefix and an extract of the context of at most
\* max_fallback_chars characters, ending in "..." when the context is longer,
\* or the connectivity message when nothing was retrieved.  No envelope of the
\* turn has state -1 or 0.
GenFailed(gen) == gen.k # "content" \/ Strip(gen.r) = <<>>
C10_ReplyAlwaysHasText ==
    \A c \in Conns :
        (pc[c] = "recv" /\ outcome[c].reply # <<>>)
            => LET r == outcome[c].reply[1]
                   env == Last(sent[c])
                   t == env.payload.messages[2].text
                   stripped == Strip(r.context)
               IN  /\ env.state = 5
                   /\ \A i \in 1..Len(sent[c]) : sent[c][i].state \notin {-1, 0}
                   /\ ~TextEmpty(t)
                   /\ ~cfg.groq => t = NotConfiguredText
                   /\ (cfg.groq /\ ~GenFailed(r.gen)) => t = Txt("", Strip(r.gen.r))
                   /\ (cfg.groq /\ GenFailed(r.gen) /\ stripped = <<>>)
                          => t = ConnectivityText
                   /\ (cfg.groq /\ GenFailed(r.gen) /\ stripped # <<>>)
                          => /\ t.lit = FallbackIntro
                             /\ t.rle # <<>>
                             /\ RLen(t.rle) <= max_fallback_chars
                             /\ IF RLen(stripped) > max_fallback_chars
                                THEN /\ EndsWithEllipsis(t.rle)
                                     /\ Take(t.rle, RLen(t.rle) - 3)
                                            = Take(stripped, RLen(t.rle) - 3)
                                ELSE t.rle = stripped

\* The generation raised and the context retrieved is longer than the cap.
C10_Witness ==
    /\ pc[1] = "recv"
    /\ cfg.groq
    /\ outcome[1].reply # <<>>
    /\ outcome[1].reply[1].gen.k = "raise"
    /\ RLen(Strip(outcome[1].reply[1].context)) > max_fallback_chars
    /\ EndsWithEllipsis(Last(sent[1]).payload.messages[2].text.rle)

\* C11: a reply pipeline run that ends on a connected client has sent the
\* processing envelope and then exactly one final state-5 envelope with
\* isProcessing false and the messages [user message, reply message]; the
\* history grows by exactly those two, and no other step changes the history.
IsFinalReply(e) ==
    "messages" \in DOMAIN e.payload /\ "isProcessing" \in DOMAIN e.payload
C12_AudioOrWarning ==
    \A c \in Conns :
        \A i \in 1..Len(sent[c]) :
            IsFinalReply(sent[c][i])
                => LET p == sent[c][i].payload
                   IN  /\ sent[c][i].state = 5
                       /\ p.isSpeaking <=> "audioBase64" \in DOMAIN p
                       /\ "error" \in DOMAIN p <=> "audioBase64" \notin DOMAIN p
                       /\ "audioBase64" \in DOMAIN p => ~Falsy(p.audioBase64)
                       /\ ~TextEmpty(p.messages[2].text)

\* With a synthesis key, a reply went out without audio.
C12_Witness ==
    /\ pc[1] = "recv"
    /\ cfg.sarvam
    /\ sent[1] # <<>>
    /\ IsFinalReply(Last(sent[1]))
    /\ ~Last(sent[1]).payload.isSpeaking
    /\ "error" \in DOMAIN Last(sent[1]).payload

\* C13 (as stated): the greeting sent for conversation_started has the text,
\* and any audio the speech, of the language the session has now (English
\* when none was selected).
CurrentGreeting(c) ==
    GreetingOf(IF session[c].language = NoneStr THEN "English"
               ELSE session[c].language)
C13_GreetingInCurrentLanguage ==
    \A c \in Conns :
        (pc[c] = "recv" /\ clientOpen[c]
         /\ FrameIs(lastFrame[c], "conversation_started"))
            => LET p == sent[c][1].payload
               IN  /\ p.messages[1].text = CurrentGreeting(c)
                   /\ "audioBase64" \in DOMAIN p
                          => p.audioBase64.speech = CurrentGreeting(c)

\* C14: conversation_started is answered with exactly one state-5 envelope
\* with one greeting message.  With a cached greeting, that message and its
\* audio are sent with isSpeaking true and the cache is empty afterwards;
\* without one the greeting of the session's language is synthesized now and
\* isSpeaking tells whether audio came back.
C14_GreetingOnce ==
    [][\A c \in Conns :
          (inbox'[c] < inbox[c] /\ clientOpen[c]
           /\ FrameIs(lastFrame'[c], "conversation_started"))
              => LET s0 == session[c]
                     p == sent'[c][1].payload
                     cached == /\ ~Falsy(s0.cached_greeting_audio)
                               /\ ~Falsy(s0.cached_greeting_message)
                 IN  /\ Len(sent'[c]) = 1
                     /\ sent'[c][1].state = 5
                     /\ pc'[c] = "recv"
                     /\ Len(p.messages) = 1
                     /\ IF cached
                        THEN /\ p.isSpeaking
                             /\ "audioBase64" \in DOMAIN p
                             /\ p.audioBase64 = s0.cached_greeting_audio
                             /\ p.messages = <<s0.cached_greeting_message>>
                             /\ session'[c] =
                                    [s0 EXCEPT !.cached_greeting_audio = NoneVal,
                                               !.cached_greeting_message = NoneVal]
                        ELSE /\ session'[c] = s0
                             /\ p.messages[1].text = CurrentGreeting(c)
                             /\ p.isSpeaking <=> "audioBase64" \in DOMAIN p
                             /\ p.isSpeaking => cfg.sarvam]_vars

\* A cached greeting (of a language selected earlier) has been served and the
\* cache is empty.
C14_Witness ==
    /\ pc[1] = "recv"
    /\ clientOpen[1]
    /\ FrameIs(lastFrame[1], "conversation_started")
    /\ session[1].language = "English"
    /\ sent[1][1].payload.messages[1].text = GREETINGS["Hindi"]
    /\ Falsy(session[1].cached_greeting_audio)
    /\ Falsy(session[1].cached_greeting_message)

\* C15 (as stated): language_selected with a missing language or any value
\* that is no supported language name, of whatever JSON type, leaves the
\* session unchanged and is answered with exactly one {state: 5, payload: null}.
SupportedLanguage(f) ==
    /\ FrameIs(f, "language_selected")
    /\ f.data.msg.language.t = "str"
    /\ f.data.msg.language.s \in VALID_LANGUAGES
UnsupportedLanguage(f) ==
    FrameIs(f, "language_selected") /\ ~SupportedLanguage(f)
C15_InvalidLanguageIgnored ==
    [][\A c \in Conns :
          (inbox'[c] < inbox[c] /\ clientOpen[c] /\ UnsupportedLanguage(lastFrame'[c]))
              => /\ sent'[c] = <<Env(5, Null)>>
                 /\ session'[c] = session[c]]_vars

\* C16: language_selected with a supported name stores the name and the code
\* derived from it and is answered with exactly one {state: 5, payload: null},
\* whatever the synthesis of the greeting does; in every state the stored code
\* is the one derived from the stored language, or both are unset.
CodeOf(name) == TARGET_LANGUAGE_CODES[LANGUAGE_NAME_TO_CODE_KEY[name]]
LanguageConsistent(sess) ==
    IF sess.language = NoneStr THEN sess.language_code = NoneStr
    ELSE sess.language \in VALID_LANGUAGES /\ sess.language_code = CodeOf(sess.language)
C16_LanguageAndCodeStored ==
    [][\A c \in Conns :
          /\ (inbox'[c] < inbox[c] /\ clientOpen[c] /\ SupportedLanguage(lastFrame'[c]))
                 => /\ sent'[c] = <<Env(5, Null)>>
                    /\ pc'[c] = "recv"
                    /\ session'[c].language = lastFrame'[c].data.msg.language.s
                    /\ session'[c].language_code = CodeOf(session'[c].language)
                    /\ session'[c].messages = session[c].messages
          /\ LanguageConsistent(session[c])
          /\ LanguageConsistent(session'[c])]_vars

\* A language has been stored although the synthesis of its greeting failed.
C16_Witness ==
    /\ pc[1] = "recv"
    /\ clientOpen[1]
    /\ cfg.sarvam
    /\ SupportedLanguage(lastFrame[1])
    /\ session[1].language = "Hindi"
    /\ session[1].language_code = "hi-IN"
    /\ Falsy(session[1].cached_greeting_audio)
    /\ sent[1] = <<Env(5, Null)>>

\* C17: user_message whose text is missing, empty or only whitespace is
\* answered with exactly one {state: 5, payload: {error: "Missing text",
\* isProcessing: false}}; the reply pipeline is not run and the session, its
\* message history included, is left as it was.
BlankText(f) ==
    /\ FrameIs(f, "user_message")
    /\ f.data.msg.text \in {Absent, JText(<<>>), JText(Sp)}
C17_BlankTextRejected ==
    [][\A c \in Conns :
          (inbox'[c] < inbox[c] /\ clientOpen[c] /\ BlankText(lastFrame'[c]))
              => /\ sent'[c] = <<MissingText>>
                 /\ pc'[c] = "recv"
                 /\ outcome'[c] = NoOutcome
                 /\ uuidCount' = uuidCount
                 /\ session'[c] = session[c]]_vars

\* A whitespace-only text has been rejected on a session that already holds a
\* selected language.
C17_Witness ==
    /\ pc[1] = "recv"
    /\ clientOpen[1]
    /\ lastFrame[1] = TextFrame(ObjData(Msg(JStr("user_message"), Absent, Absent, JText(Sp))))
    /\ sent[1] = <<MissingText>>
    /\ session[1].language = "Hindi"

\* The messages of a session: its history, the cached greeting and every
\* message handed to the client so far.
SessionMessages(c) ==
    {session[c].messages[i] : i \in 1..Len(session[c].messages)}
        \cup (IF Falsy(session[c].cached_greeting_message) THEN {}
              ELSE {session[c].cached_greeting_message})
        \cup (IF delivered[c] = NotKept THEN {} ELSE delivered[c])

\* C18 (as stated): every message has role "user" or "assistant".
C18_RoleUserOrAssistant ==
    \A c \in Conns : \A m \in SessionMessages(c) : m.role \in {"user", "assistant"}

\* C18 (amended): every message has role "user" or "clara"; the messages of
\* the program, replies and greetings, carry "clara".
C18_RoleUserOrClara ==
    \A c \in Conns : \A m \in SessionMessages(c) :
        /\ m.role \in {"user", "clara"}
        /\ m.role = "user" <=> m.id[1] = "user-"

\* The client has been handed a greeting, a user message and a reply.
C18_Witness ==
    /\ delivered[1] # NotKept
    /\ \E g, u, r \in delivered[1] :
          /\ g.id[1] = "greeting" /\ g.role = "clara"
          /\ u.id[1] = "user-" /\ u.role = "user"
          /\ r.id[1] = "clara-" /\ r.role = "clara"

\* C19 (as stated): no two messages of a session share an id, over the whole
\* life of the connection.
C19_MessageIdsUnique ==
    \A c \in Conns : \A m1, m2 \in SessionMessages(c) : m1.id = m2.id => m1 = m2

\* C20: an accepted connection is first sent {state: 0, payload: null}, before
\* any frame of the client is read, and its session starts empty: no language,
\* no language code, no messages, no cached greeting.  Nothing is sent and no
\* frame is taken before the connection is accepted.
C20_IdleBeforeFirstRead ==
    \A c \in Conns :
        /\ pc[c] = "connecting"
              => sent[c] = <<>> /\ inbox[c] = 0 /\ lastFrame[c] = NoFrame
        /\ (pc[c] = "recv" /\ lastFrame[c] = NoFrame)
              => /\ sent[c] = <<IdleEnv>>
                 /\ session[c] = InitSession
                 /\ delivered[c] \in {{}, NotKept}
        /\ (pc[c] # "connecting" /\ sent[c] # <<>> /\ lastFrame[c] = NoFrame)
              => sent[c][1] = IdleEnv

\* The first frame of the client is waiting and has not been read: the initial
\* state 0 is all that has been sent.
C20_Witness ==
    /\ pc[1] = "recv"
    /\ clientOpen[1]
    /\ lastFrame[1] = NoFrame
    /\ inbox[1] = 1
    /\ sent[1] = <<IdleEnv>>
    /\ session[1] = InitSession

Touched(c) ==
    \/ session'[c] # session[c]
    \/ sent'[c] # sent[c]
    \/ pc'[c] # pc[c]
    \/ text'[c] # text[c]
    \/ lastFrame'[c] # lastFrame[c]
C22_SessionsNotShared ==
    [][\A c \in Conns :
          /\ Touched(c) => \A d \in Conns \ {c} : ~Touched(d)
          /\ inbox'[c] < inbox[c]
                 => \E tts \in TwoTts :
                       LET r == HandleFrame(cfg, session[c], lastFrame'[c], tts, TRUE)
                       IN  /\ session'[c] = r.sess
                           /\ sent'[c] = IF r.raised THEN r.envs \o <<IdleEnv>>
                                         ELSE r.envs]_vars

\* Both connections hold an exchange, and only the second has a language and
\* a cached greeting.
C22_Witness ==
    /\ pc[1] = "recv" /\ pc[2] = "recv"
    /\ session[1].language = NoneStr
    /\ Len(session[1].messages) = 2
    /\ session[2].language = "Hindi"
    /\ ~Falsy(session[2].cached_greeting_message)
    /\ Len(session[2].messages) = 2
    /\ session[1].messages # session[2].messages

\* The rules of device resolution, read off a call: the explicit index is
\* usable, the first input device whose name holds the configured substring,
\* the system default.
IndexUsable(r) ==
    /\ ~Falsy(r.index)
    /\ r.index.i \in 0..(Len(r.devices) - 1)
    /\ r.devices[r.index.i + 1].max_input_channels >= 1
NameMatches(r, i) ==
    /\ ~Falsy(r.name)
    /\ i \in 0..(Len(r.devices) - 1)
    /\ r.devices[i + 1].max_input_channels >= 1
    /\ ~Falsy(r.devices[i + 1].name)
    /\ Contains(Lower(r.name.s), Lower(r.devices[i + 1].name.s))
FirstMatch(r, i) == NameMatches(r, i) /\ \A j \in 0..(i - 1) : ~NameMatches(r, j)
SystemDefault(r) == IF Falsy(r.default_device) THEN 0 ELSE r.default_device.i
Resolved(r) == r.k = "resolve" /\ r.out # NoOut

\* C23 (as stated): for every configuration and device list the resolver
\* returns (1) the usable explicit index, (2) otherwise the first input device
\* whose name holds the configured substring, (3) otherwise the system default
\* index, and it never raises.
C23_ResolutionOrder ==
    Resolved(rec) =>
        /\ "ret" \in DOMAIN rec.out
        /\ IF IndexUsable(rec) THEN rec.out.ret = rec.index.i
           ELSE IF \E i \in 0..(Len(rec.devices) - 1) : NameMatches(rec, i)
           THEN FirstMatch(rec, rec.out.ret)
           ELSE rec.out.ret = SystemDefault(rec)

\* C24 (as stated): with an explicit index that is not usable and a name that
\* matches an input device, the resolver returns the system default.
C24_InvalidIndexGivesDefault ==
    (/\ Resolved(rec)
     /\ ~Falsy(rec.index)
     /\ ~IndexUsable(rec)
     /\ \E i \in 0..(Len(rec.devices) - 1) : NameMatches(rec, i))
        => rec.out = Ret(SystemDefault(rec))

\* Reading a WAV back: the data chunk's size field says how much payload
\* follows the header.
WavDecode(wav) == Take(wav.data, wav.dataSize \div 2)

\* The samples of a list of chunks one after the other, computed without the
\* run-length joining of the builders.
RECURSIVE SampleAt(_, _)
SampleAt(mono, k) ==
    IF k <= Head(mono)[2] THEN Head(mono)[1] ELSE SampleAt(Tail(mono), k - Head(mono)[2])
RECURSIVE Samples(_)
Samples(chunks) ==
    IF chunks = <<>> THEN <<>>
    ELSE [k \in 1..RLen(Head(chunks)) |-> SampleAt(Head(chunks), k)] \o Samples(Tail(chunks))

WellFramed(wav, chunks) ==
    IF Samples(chunks) = <<>> THEN wav = EmptyVal
    ELSE /\ ~Falsy(wav)
         /\ WavLen(wav) = 44 + 2 * Len(Samples(chunks))
         /\ wav.dataSize = 2 * Len(Samples(chunks))
         /\ wav.riffSize = 36 + wav.dataSize
         /\ wav.fmtSize = 16 /\ wav.format = 1 /\ wav.channels = 1 /\ wav.bits = 16
         /\ wav.rate = AUDIO_SAMPLE_RATE
         /\ wav.byteRate = AUDIO_SAMPLE_RATE * 2 /\ wav.blockAlign = 2
         /\ [k \in 1..RLen(wav.data) |-> SampleAt(wav.data, k)] = Samples(chunks)
         /\ [k \in 1..RLen(WavDecode(wav)) |-> SampleAt(WavDecode(wav), k)] = Samples(chunks)

\* C25: a WAV builder returns b"" exactly for an empty payload; otherwise a
\* 44-byte header and the payload unchanged, with the data size the payload
\* length, the RIFF size 36 more, fmt size 16, format 1, one channel, 16 bits,
\* byte rate twice the sample rate and block align 2, so that reading it back
\* gives the payload; the builder from one buffer and the builder from chunks
\* return the same bytes.
C25_WavFraming ==
    rec.k = "wav" =>
        /\ rec.from_mono # NoOut => WellFramed(rec.from_mono, rec.chunks)
        /\ rec.from_chunks # NoOut => WellFramed(rec.from_chunks, rec.chunks)
        /\ (rec.from_mono # NoOut /\ rec.from_chunks # NoOut)
               => rec.from_mono = rec.from_chunks

\* Both builders have framed three samples that came as a chunk, an empty
\* chunk and another chunk.
C25_Witness ==
    /\ rec.k = "wav"
    /\ rec.chunks = << << <<0, 1>>, <<33, 1>> >>, <<>>, << <<33, 1>> >> >>
    /\ rec.from_mono # NoOut
    /\ rec.from_chunks = rec.from_mono
    /\ rec.from_mono.dataSize = 6

\* What the classifier has been shown so far, read off the history: a speech
\* sub-frame was among them; the silence sub-frames since the last one.
SpeechHeard(heard) == \E k \in 1..Len(heard) : heard[k][1] = "v"
SilenceSinceSpeech(heard) ==
    IF heard # <<>> /\ Last(heard)[1] = "q" THEN Last(heard)[2] ELSE 0
Ended(r, how) == r.out # NoOut /\ r.out.end = how

\* C26: in VAD mode the capture stops exactly at the first silence sub-frame
\* at which speech has been heard and 75 silence sub-frames have followed the
\* last speech sub-frame, never earlier; a speech sub-frame sets the count to
\* zero and silence before the first speech never counts.
C26_StopAtSilenceThreshold ==
    rec.k = "vad" =>
        /\ silence_frames_to_stop = 75
        /\ Ended(rec, "stop")
               => /\ SpeechHeard(rec.heard)
                  /\ SilenceSinceSpeech(rec.heard) = silence_frames_to_stop
        /\ ~Ended(rec, "stop")
               => ~(/\ SpeechHeard(rec.heard)
                    /\ SilenceSinceSpeech(rec.heard) >= silence_frames_to_stop)
        /\ rec.st.speech_started <=> SpeechHeard(rec.heard)
        /\ rec.st.speech_started
               => rec.st.consecutive_silence = SilenceSinceSpeech(rec.heard)

\* The capture has stopped after 74 silence sub-frames, one speech sub-frame
\* and 75 silence sub-frames.
C26_Witness ==
    /\ rec.k = "vad"
    /\ Ended(rec, "stop")
    /\ rec.heard = << <<"q", 74>>, <<"v", 1>>, <<"q", 75>> >>

\* C27: while no sub-frame has been classified as speech the capture ends
\* with the timeout exactly when the frames without speech reach
\* ceil(speechTimeoutMs / frameMs); once speech has started it stays started
\* and the timeout cannot happen any more.
C27_TimeoutOnlyBeforeSpeech ==
    /\ [](rec.k = "vad" =>
            /\ speech_timeout_frames = 500
            /\ Ended(rec, "timeout")
                   => /\ ~SpeechHeard(rec.heard)
                      /\ RLen(rec.heard) = speech_timeout_frames
            /\ (~Ended(rec, "timeout") /\ ~SpeechHeard(rec.heard))
                   => /\ RLen(rec.heard) < speech_timeout_frames
                      /\ rec.st.frames_without_speech = RLen(rec.heard))
    /\ [][(rec.k = "vad" /\ rec.st.speech_started)
             => /\ rec'.st.speech_started
                /\ ~Ended(rec', "timeout")]_vars

\* The capture has timed out on the 500th block without speech, short blocks
\* having come in between.
C27_Witness ==
    /\ rec.k = "vad"
    /\ Ended(rec, "timeout")
    /\ rec.heard = << <<"q", 500>> >>
    /\ RLen(rec.pulled) > 500 * SAMPLES_PER_FRAME

\* C28 (as stated): the payload at the stop point is every byte pulled from the
\* device before the triggering silence sub-frame, in arrival order; no block,
\* a short one included, is dropped.
C28_PayloadIsAllPulled ==
    (rec.k = "vad" /\ Ended(rec, "stop")) => rec.st.accumulated = rec.pulled

\* C29 (as stated): every VAD capture eventually ends, whatever blocks the
\* device keeps delivering.
C29_CaptureEnds ==
    <>(rec.k = "vad" /\ rec.out # NoOut)

\* C30 (as stated): in fixed mode the capture lasts the configured duration
\* clamped to [0.5 s, 30.0 s], and the mono buffer given to the loudness gate
\* and the WAV builder holds int(sampleRate * d) samples, for every channel
\* count from 1 up.
Clamped(tenths) == IF tenths < 5 THEN 5 ELSE IF tenths > 300 THEN 300 ELSE tenths
C30_FixedDurationExact ==
    (rec.k = "fixed" /\ rec.out # NoOut) =>
        /\ rec.out.channels >= 1
        /\ rec.out.frames * 10 = AUDIO_SAMPLE_RATE * Clamped(rec.seconds_tenths)
        /\ RLen(rec.out.mono) = (AUDIO_SAMPLE_RATE * Clamped(rec.seconds_tenths)) \div 10

====
